---------------------------- MODULE Spec2Model ----------------------------
(***************************************************************************)
(* Model of apps/agent/main.py: the desktop recording agent.               *)
(*                                                                         *)
(* Recording side: the module-level state (recording, recorded_events,     *)
(* key_buffer, last_key_ts, current_session_dir, record_lock, the two      *)
(* listener globals), the request thread running record_start and          *)
(* record_stop one statement at a time, and one mouse and one keyboard     *)
(* listener thread per record_start call, each running its callback        *)
(* (on_click, on_press) one lock-delimited step at a time.                 *)
(*                                                                         *)
(* Playback side: run_action, one capability call at a time.               *)
(*                                                                         *)
(* Time is counted in tenths of a second.  Text is a TLA+ string; the key  *)
(* buffer is a sequence of one-character strings.  Python's None is the    *)
(* string "None" where the value is a string, and the absence of the key   *)
(* where the value lives in a dict.                                        *)
(***************************************************************************)
EXTENDS Integers, Sequences, FiniteSets, TLC

(***************************************************************************)
(* Bounds of the model.                                                    *)
(***************************************************************************)
MaxStarts == 2      \* record_start calls in one run (listener pairs created)
MaxEvents == 3      \* input events the callbacks accept in one run
MaxClock  == 9      \* last clock value, in tenths of a second

(***************************************************************************)
(* Program constants.                                                      *)
(***************************************************************************)
KEY_GROUP_TIMEOUT  == 7     \* 0.7 s, in tenths of a second
DEFAULT_CONFIDENCE == 80    \* 0.8, in hundredths
DEFAULT_TIMEOUT_MS == 10000 \* data.get("timeoutMs", 10000)
POLL_INTERVAL_MS   == 250   \* time.sleep(0.25)

None == "None"

(***************************************************************************)
(* Inputs the environment can deliver.                                     *)
(***************************************************************************)
TickSteps == {0, 4, 8}                    \* time since the last reading of the clock:
                                          \*   none, a short pause, a long pause
Keys      == {"h", "i", "backspace", "shift"}
CharKeys  == {"h", "i"}                   \* keyboard.KeyCode with a char
Points    == {<<50, 50>>}
Buttons   == {"Button.left"}              \* str(button)
Pairs     == 1..MaxStarts                 \* listener pair ids, one per start

VARIABLES
    recording,            \* global recording
    recorded_events,      \* global recorded_events (the log)
    key_buffer,           \* global key_buffer
    last_key_ts,          \* global last_key_ts (0 is 0.0)
    current_session_dir,  \* global current_session_dir (None or a path)
    record_lock,          \* holder of record_lock: <<"free",0>>, <<"api",0>>,
                          \*   <<"mouse",p>> or <<"key",p>>
    mouse_listener,       \* global mouse_listener: 0 is None, else a pair id
    keyboard_listener,    \* global keyboard_listener
    nstarts,              \* record_start calls so far
    api_pc,               \* the request thread's position
    m_alive, k_alive,     \* listener threads started and not stopped
    m_pc, k_pc,           \* each listener thread's position in its callback
    m_ev, k_ev,           \* the arguments / locals of the callback in flight
    clock,                \* time.time() as last read
    nevents,              \* events accepted by the callbacks so far
    returned,             \* the events of the last record_stop response
    hist,                 \* history: the inputs processed under the lock
                          \*   since the last record_start, in lock order
    fresh,                \* history: no older listener was attached or in
                          \*   flight when the last record_start began
    stop_seen,            \* history: how many inputs had been processed
                          \*   when record_stop was first called after the
                          \*   last record_start (-1: not called yet)
    at_stop,              \* history: the key buffer as the last
                          \*   record_stop found it on taking the lock
    quiet_stops,          \* history: the record_stop calls begun since the
                          \*   last step of a callback or of record_start
                          \*   (2: two or more)
    run_pc,               \* run_action: the request's position
    payload,              \* run_action: payload.type and payload.data
    location,             \* run_action: the local location
    run_start,            \* run_action: the local start (desktop_wait_for_image)
    run_clock,            \* time.time() during run_action, in milliseconds
    calls,                \* the capability calls of this invocation, in
                          \*   order, each with its outcome
    result                \* the value run_action returned

recVars == <<recording, recorded_events, key_buffer, last_key_ts,
             current_session_dir, record_lock, mouse_listener,
             keyboard_listener, nstarts, api_pc, m_alive, k_alive,
             m_pc, k_pc, m_ev, k_ev, clock, nevents, returned, hist,
             fresh, stop_seen, at_stop, quiet_stops>>

playVars == <<run_pc, payload, location, run_start, run_clock, calls, result>>

vars == <<recVars, playVars>>

Free == <<"free", 0>>

\* at_stop before record_stop has taken the lock.
NotStopped == <<>>

(***************************************************************************)
(* Pure helpers of the recorder.                                           *)
(***************************************************************************)

\* "".join(key_buffer)
RECURSIVE Join(_)
Join(buf) == IF buf = <<>> THEN "" ELSE Head(buf) \o Join(Tail(buf))

\* key_to_char: a character key gives its character, space, enter and tab
\* their literal, backspace the token "BACKSPACE", any other key None.
key_to_char(key) ==
    CASE key \in CharKeys      -> key
      [] key = "space"         -> " "
      [] key = "enter"         -> "\n"
      [] key = "tab"           -> "\t"
      [] key = "backspace"     -> "BACKSPACE"
      [] OTHER                 -> None

\* The desktop_type record flush_keys and record_stop append.
TypeRecord(buf) == [type |-> "desktop_type", value |-> Join(buf)]

\* A flush that puts its record at the front of the log.
flush_keys_front(log, buf) ==
    IF buf = <<>> THEN log ELSE <<[type |-> "desktop_type", value |-> Join(buf)]>> \o log

\* flush_keys, on the log: nothing for an empty buffer, else one record.
flush_keys_log(log, buf) ==
    IF buf = <<>> THEN log ELSE Append(log, TypeRecord(buf))

\* A pop that removes the oldest character.
PopFirst(buf) == Tail(buf)

\* key_buffer.pop()
Pop(buf) == SubSeq(buf, 1, Len(buf) - 1)

\* os.path.join(RECORDINGS_DIR, session_id)
SessionDir(n) == "/app/recordings/" \o ToString(n)

\* os.path.join(current_session_dir, filename)
ImagePath(dir, ms) == dir \o "/click_" \o ToString(ms) \o ".png"

\* The record on_click appends.
ClickRecord(ev) ==
    [type       |-> "desktop_click_image",
     x          |-> ev.x,
     y          |-> ev.y,
     button     |-> ev.button,
     imagePath  |-> ev.image_path,
     confidence |-> DEFAULT_CONFIDENCE]

\* No callback in flight.  The field n of a callback in flight is history:
\* the number of record_start calls begun when the event was delivered.
NoEv  == [x |-> 0, y |-> 0, button |-> None, image_path |-> None, n |-> 0]
NoKey == [key |-> None, n |-> 0]

\* A callback that does not wait for the lock.
AcquireAnyway(lock) == TRUE

\* with record_lock: the lock is taken only when nobody holds it.
CanAcquire(lock) == lock = Free

InFlight == {p \in Pairs : m_pc[p] # "idle"} \cup {p \in Pairs : k_pc[p] # "idle"}

(***************************************************************************)
(* Initial state: the module has been imported, nothing has been called.   *)
(***************************************************************************)
RecInit ==
    /\ recording = FALSE
    /\ recorded_events = <<>>
    /\ key_buffer = <<>>
    /\ last_key_ts = 0
    /\ current_session_dir = None
    /\ record_lock = Free
    /\ mouse_listener = 0
    /\ keyboard_listener = 0
    /\ nstarts = 0
    /\ api_pc = "idle"
    /\ m_alive = {}
    /\ k_alive = {}
    /\ m_pc = [p \in Pairs |-> "idle"]
    /\ k_pc = [p \in Pairs |-> "idle"]
    /\ m_ev = [p \in Pairs |-> NoEv]
    /\ k_ev = [p \in Pairs |-> NoKey]
    /\ clock = 1
    /\ nevents = 0
    /\ returned = <<>>
    /\ hist = <<>>
    /\ fresh = TRUE
    /\ stop_seen = -1
    /\ at_stop = NotStopped
    /\ quiet_stops = 0


(***************************************************************************)
(* record_start, statement by statement.  Nothing here takes record_lock.  *)
(***************************************************************************)

\* line 65: recorded_events = []
StartResetEvents ==
    /\ api_pc = "idle"
    /\ nstarts < MaxStarts
    /\ recorded_events' = <<>>
    /\ api_pc' = "start_66"
    /\ nstarts' = nstarts + 1
    /\ hist' = <<>>
    /\ fresh' = (m_alive = {} /\ k_alive = {} /\ InFlight = {})
    /\ stop_seen' = -1
    /\ at_stop' = NotStopped
    /\ quiet_stops' = 0
    /\ UNCHANGED <<recording, key_buffer, last_key_ts, current_session_dir,
                   record_lock, mouse_listener, keyboard_listener,
                   m_alive, k_alive, m_pc, k_pc, m_ev, k_ev, clock, returned, nevents>>
    /\ UNCHANGED playVars

\* line 66: key_buffer = []
StartResetKeys ==
    /\ api_pc = "start_66"
    /\ key_buffer' = <<>>
    /\ api_pc' = "start_67"
    /\ UNCHANGED <<recording, recorded_events, last_key_ts,
                   current_session_dir, record_lock, mouse_listener,
                   keyboard_listener, nstarts, m_alive, k_alive, m_pc, k_pc,
                   m_ev, k_ev, clock, returned, hist, fresh, nevents,
                   stop_seen, at_stop, quiet_stops>>
    /\ UNCHANGED playVars

\* line 67: last_key_ts = 0.0
StartResetTs ==
    /\ api_pc = "start_67"
    /\ last_key_ts' = 0
    /\ api_pc' = "start_68"
    /\ UNCHANGED <<recording, recorded_events, key_buffer,
                   current_session_dir, record_lock, mouse_listener,
                   keyboard_listener, nstarts, m_alive, k_alive, m_pc, k_pc,
                   m_ev, k_ev, clock, returned, hist, fresh, nevents,
                   stop_seen, at_stop, quiet_stops>>
    /\ UNCHANGED playVars

\* line 68: recording = True
StartSetRecording ==
    /\ api_pc = "start_68"
    /\ recording' = TRUE
    /\ api_pc' = "start_70"
    /\ UNCHANGED <<recorded_events, key_buffer, last_key_ts,
                   current_session_dir, record_lock, mouse_listener,
                   keyboard_listener, nstarts, m_alive, k_alive, m_pc, k_pc,
                   m_ev, k_ev, clock, returned, hist, fresh, nevents,
                   stop_seen, at_stop, quiet_stops>>
    /\ UNCHANGED playVars

\* lines 70-72: the session directory
StartSessionDir ==
    /\ api_pc = "start_70"
    /\ current_session_dir' = SessionDir(nstarts)
    /\ api_pc' = "start_139"
    /\ UNCHANGED <<recording, recorded_events, key_buffer, last_key_ts,
                   record_lock, mouse_listener, keyboard_listener, nstarts,
                   m_alive, k_alive, m_pc, k_pc, m_ev, k_ev, clock, returned,
                   hist, fresh, nevents,
                   stop_seen, at_stop, quiet_stops>>
    /\ UNCHANGED playVars

\* lines 139-144: a new listener pair replaces the globals and is started;
\* the pair the globals named before is left as it was.  Then return.
StartAttach ==
    /\ api_pc = "start_139"
    /\ mouse_listener' = nstarts
    /\ keyboard_listener' = nstarts
    /\ m_alive' = m_alive \cup {nstarts}
    /\ k_alive' = k_alive \cup {nstarts}
    /\ api_pc' = "idle"
    /\ UNCHANGED <<recording, recorded_events, key_buffer, last_key_ts,
                   current_session_dir, record_lock, nstarts, m_pc, k_pc,
                   m_ev, k_ev, clock, returned, hist, fresh, nevents,
                   stop_seen, at_stop, quiet_stops>>
    /\ UNCHANGED playVars

record_start ==
    \/ StartResetEvents
    \/ StartResetKeys
    \/ StartResetTs
    \/ StartSetRecording
    \/ StartSessionDir
    \/ StartAttach


(***************************************************************************)
(* record_stop, statement by statement.                                    *)
(***************************************************************************)

\* line 150: recording = False
StopClearRecording ==
    /\ api_pc = "idle"
    /\ recording' = FALSE
    /\ api_pc' = "stop_151"
    /\ stop_seen' = IF stop_seen = -1 THEN Len(hist) ELSE stop_seen
    /\ UNCHANGED <<recorded_events, key_buffer, last_key_ts,
                   current_session_dir, record_lock, mouse_listener,
                   keyboard_listener, nstarts, m_alive, k_alive, m_pc, k_pc,
                   m_ev, k_ev, clock, returned, hist, fresh, nevents,
                   at_stop>>
    /\ quiet_stops' = IF quiet_stops < 2 THEN quiet_stops + 1 ELSE 2
    /\ UNCHANGED playVars

\* lines 151-154: stop the listeners the two globals name.  A callback
\* already running is not waited for.
StopDetach ==
    /\ api_pc = "stop_151"
    /\ m_alive' = m_alive \ {mouse_listener}
    /\ k_alive' = k_alive \ {keyboard_listener}
    /\ api_pc' = "stop_155"
    /\ UNCHANGED <<recording, recorded_events, key_buffer, last_key_ts,
                   current_session_dir, record_lock, mouse_listener,
                   keyboard_listener, nstarts, m_pc, k_pc, m_ev, k_ev, clock,
                   returned, hist, fresh, nevents,
                   stop_seen, at_stop, quiet_stops>>
    /\ UNCHANGED playVars

\* line 155: with record_lock
StopAcquire ==
    /\ api_pc = "stop_155"
    /\ CanAcquire(record_lock)
    /\ record_lock' = <<"api", 0>>
    /\ api_pc' = "stop_156"
    /\ at_stop' = key_buffer
    /\ UNCHANGED <<recording, recorded_events, key_buffer, last_key_ts,
                   current_session_dir, mouse_listener, keyboard_listener,
                   nstarts, m_alive, k_alive, m_pc, k_pc, m_ev, k_ev, clock,
                   returned, hist, fresh, nevents,
                   stop_seen, quiet_stops>>
    /\ UNCHANGED playVars

\* A flush that appends a record for an empty run too.
StopFlushAlways(log, buf) == Append(log, [type |-> "desktop_type", value |-> Join(buf)])

\* The log after lines 156-161.
StopFlushLog(log, buf) ==
    IF buf # <<>> THEN Append(log, TypeRecord(buf)) ELSE log

\* lines 156-161, and the release of the lock
StopFlush ==
    /\ api_pc = "stop_156"
    /\ recorded_events' = StopFlushLog(recorded_events, key_buffer)
    /\ key_buffer' = <<>>
    /\ record_lock' = Free
    /\ api_pc' = "stop_162"
    /\ UNCHANGED <<recording, last_key_ts, current_session_dir,
                   mouse_listener, keyboard_listener, nstarts, m_alive,
                   k_alive, m_pc, k_pc, m_ev, k_ev, clock, returned, hist,
                   fresh, nevents,
                   stop_seen, at_stop, quiet_stops>>
    /\ UNCHANGED playVars

\* line 162: return {"status": "stopped", "events": recorded_events}
StopReturn ==
    /\ api_pc = "stop_162"
    /\ returned' = recorded_events
    /\ api_pc' = "idle"
    /\ UNCHANGED <<recording, recorded_events, key_buffer, last_key_ts,
                   current_session_dir, record_lock, mouse_listener,
                   keyboard_listener, nstarts, m_alive, k_alive, m_pc, k_pc,
                   m_ev, k_ev, clock, hist, fresh, nevents,
                   stop_seen, at_stop, quiet_stops>>
    /\ UNCHANGED playVars

record_stop ==
    \/ StopClearRecording
    \/ StopDetach
    \/ StopAcquire
    \/ StopFlush
    \/ StopReturn

(***************************************************************************)
(* on_click, run by the mouse listener thread of pair p.                   *)
(***************************************************************************)

\* line 86: the listener delivers an event; the callback returns at once
\* unless recording is set and the event is a press.
ClickEvent(p, pt, button, pressed) ==
    /\ p \in m_alive
    /\ m_pc[p] = "idle"
    /\ nevents < MaxEvents
    /\ IF recording /\ pressed
         THEN /\ m_pc' = [m_pc EXCEPT ![p] = "wait_88"]
              /\ nevents' = nevents + 1
              /\ quiet_stops' = 0
              /\ m_ev' = [m_ev EXCEPT ![p] =
                             [x |-> pt[1], y |-> pt[2], button |-> button,
                              image_path |-> None, n |-> nstarts]]
         ELSE UNCHANGED <<m_pc, m_ev, nevents, quiet_stops>>
    /\ UNCHANGED <<recording, recorded_events, key_buffer, last_key_ts,
                   current_session_dir, record_lock, mouse_listener,
                   keyboard_listener, nstarts, api_pc, m_alive, k_alive,
                   k_pc, k_ev, clock, returned, hist, fresh,
                   stop_seen, at_stop>>
    /\ UNCHANGED playVars

\* line 88: with record_lock
ClickAcquire(p) ==
    /\ m_pc[p] = "wait_88"
    /\ CanAcquire(record_lock)
    /\ record_lock' = <<"mouse", p>>
    /\ m_pc' = [m_pc EXCEPT ![p] = "in_89"]
    /\ UNCHANGED <<recording, recorded_events, key_buffer, last_key_ts,
                   current_session_dir, mouse_listener, keyboard_listener,
                   nstarts, api_pc, m_alive, k_alive, k_pc, m_ev, k_ev,
                   clock, returned, hist, fresh, nevents,
                   stop_seen, at_stop>>
    /\ quiet_stops' = 0
    /\ UNCHANGED playVars

\* lines 89-98: flush_keys(), then the anchor screenshot.  The capture or the
\* save may raise: nothing in on_click catches it, so the with block
\* releases the lock and the callback ends without reaching line 99.  The
\* listener library may or may not end the listener thread then.
ClickFlush(p, shot_ok, dies) ==
    /\ m_pc[p] = "in_89"
    /\ recorded_events' = flush_keys_log(recorded_events, key_buffer)
    /\ key_buffer' = <<>>
    /\ hist' = Append(hist, [kind |-> "click", x |-> m_ev[p].x,
                                y |-> m_ev[p].y, ok |-> shot_ok])
    /\ IF current_session_dir = None \/ shot_ok
         THEN /\ m_ev' = [m_ev EXCEPT ![p].image_path =
                             IF current_session_dir = None THEN None
                             ELSE ImagePath(current_session_dir, clock * 100)]
              /\ m_pc' = [m_pc EXCEPT ![p] = "in_99"]
              /\ UNCHANGED <<record_lock, m_alive>>
         ELSE /\ m_ev' = [m_ev EXCEPT ![p] = NoEv]
              /\ m_pc' = [m_pc EXCEPT ![p] = "idle"]
              /\ record_lock' = Free
              /\ m_alive' = IF dies THEN m_alive \ {p} ELSE m_alive
    /\ UNCHANGED <<recording, last_key_ts, current_session_dir,
                   mouse_listener, keyboard_listener, nstarts, api_pc,
                   k_alive, k_pc, k_ev, clock, returned, fresh, nevents,
                   stop_seen, at_stop>>
    /\ quiet_stops' = 0
    /\ UNCHANGED playVars

\* lines 99-106: append the click record; the with block ends.
ClickAppend(p) ==
    /\ m_pc[p] = "in_99"
    /\ recorded_events' = Append(recorded_events, ClickRecord(m_ev[p]))
    /\ record_lock' = Free
    /\ m_pc' = [m_pc EXCEPT ![p] = "idle"]
    /\ m_ev' = [m_ev EXCEPT ![p] = NoEv]
    /\ UNCHANGED <<recording, key_buffer, last_key_ts, current_session_dir,
                   mouse_listener, keyboard_listener, nstarts, api_pc,
                   m_alive, k_alive, k_pc, k_ev, clock, returned, hist,
                   fresh, nevents,
                   stop_seen, at_stop>>
    /\ quiet_stops' = 0
    /\ UNCHANGED playVars

on_click ==
    \/ \E p \in Pairs, pt \in Points, b \in Buttons, pressed \in BOOLEAN :
           ClickEvent(p, pt, b, pressed)
    \/ \E p \in Pairs : ClickAcquire(p)
    \/ \E p \in Pairs, shot_ok \in BOOLEAN, dies \in BOOLEAN :
           ClickFlush(p, shot_ok, dies)
    \/ \E p \in Pairs : ClickAppend(p)

(***************************************************************************)
(* on_press, run by the keyboard listener thread of pair p.                *)
(***************************************************************************)

\* line 123: the callback returns at once unless recording is set.
PressEvent(p, key) ==
    /\ p \in k_alive
    /\ k_pc[p] = "idle"
    /\ nevents < MaxEvents
    /\ IF recording
         THEN /\ k_pc' = [k_pc EXCEPT ![p] = "wait_125"]
              /\ nevents' = nevents + 1
              /\ quiet_stops' = 0
              /\ k_ev' = [k_ev EXCEPT ![p] = [key |-> key, n |-> nstarts]]
         ELSE UNCHANGED <<k_pc, k_ev, nevents, quiet_stops>>
    /\ UNCHANGED <<recording, recorded_events, key_buffer, last_key_ts,
                   current_session_dir, record_lock, mouse_listener,
                   keyboard_listener, nstarts, api_pc, m_alive, k_alive,
                   m_pc, m_ev, clock, returned, hist, fresh,
                   stop_seen, at_stop>>
    /\ UNCHANGED playVars

\* line 125: with record_lock
PressAcquire(p) ==
    /\ k_pc[p] = "wait_125"
    /\ CanAcquire(record_lock)
    /\ record_lock' = <<"key", p>>
    /\ k_pc' = [k_pc EXCEPT ![p] = "in_126"]
    /\ UNCHANGED <<recording, recorded_events, key_buffer, last_key_ts,
                   current_session_dir, mouse_listener, keyboard_listener,
                   nstarts, api_pc, m_alive, k_alive, m_pc, m_ev, k_ev,
                   clock, returned, hist, fresh, nevents,
                   stop_seen, at_stop>>
    /\ quiet_stops' = 0
    /\ UNCHANGED playVars

\* line 127: the idle gap test
GapExceeded(ts, now) == ts # 0 /\ (now - ts) > KEY_GROUP_TIMEOUT

\* lines 126-129: now = time.time(), d after the last reading; the gap test
\* and its flush; then the timestamp, which is written for every key, before
\* the key is looked at.
PressStamp(p, d) ==
    /\ k_pc[p] = "in_126"
    /\ clock + d <= MaxClock
    /\ clock' = clock + d
    /\ IF GapExceeded(last_key_ts, clock')
         THEN /\ recorded_events' = flush_keys_log(recorded_events, key_buffer)
              /\ key_buffer' = <<>>
         ELSE UNCHANGED <<recorded_events, key_buffer>>
    /\ last_key_ts' = clock'
    /\ hist' = Append(hist, [kind |-> "key", key |-> k_ev[p].key, t |-> clock'])
    /\ k_pc' = [k_pc EXCEPT ![p] = "in_130"]
    /\ UNCHANGED <<recording, current_session_dir, record_lock,
                   mouse_listener, keyboard_listener, nstarts, api_pc,
                   m_alive, k_alive, m_pc, m_ev, k_ev, returned, fresh, nevents,
                   stop_seen, at_stop>>
    /\ quiet_stops' = 0
    /\ UNCHANGED playVars

\* A backspace that empties the buffer.
PressBufferClears(buf, key) ==
    IF key_to_char(key) = "BACKSPACE" THEN <<>>
    ELSE IF key_to_char(key) = None THEN buf
    ELSE Append(buf, key_to_char(key))

\* The key buffer after lines 130-137.
PressBuffer(buf, key) ==
    LET char == key_to_char(key) IN
    IF char = "BACKSPACE" THEN (IF buf # <<>> THEN Pop(buf) ELSE buf)
    ELSE IF char = None THEN buf
    ELSE Append(buf, char)

\* lines 130-137: the key itself; the with block ends.
PressKey(p) ==
    /\ k_pc[p] = "in_130"
    /\ key_buffer' = PressBuffer(key_buffer, k_ev[p].key)
    /\ record_lock' = Free
    /\ k_pc' = [k_pc EXCEPT ![p] = "idle"]
    /\ k_ev' = [k_ev EXCEPT ![p] = NoKey]
    /\ UNCHANGED <<recording, recorded_events, last_key_ts,
                   current_session_dir, mouse_listener, keyboard_listener,
                   nstarts, api_pc, m_alive, k_alive, m_pc, m_ev, clock,
                   returned, hist, fresh, nevents,
                   stop_seen, at_stop>>
    /\ quiet_stops' = 0
    /\ UNCHANGED playVars

on_press ==
    \/ \E p \in Pairs, key \in Keys : PressEvent(p, key)
    \/ \E p \in Pairs : PressAcquire(p)
    \/ \E p \in Pairs, d \in TickSteps : PressStamp(p, d)
    \/ \E p \in Pairs : PressKey(p)

(***************************************************************************)
(* run_action.  The capabilities (pyautogui.click, locateOnScreen,         *)
(* typewrite) are the environment: each call is recorded in calls with the *)
(* outcome the environment chose for it: "ok", "none" (no match), "box" (a *)
(* match) or "raise" (an exception, whose message is ExcMessage).          *)
(***************************************************************************)
ActionTypes == {"desktop_click", "desktop_click_image", "desktop_type",
                "desktop_wait_for_image", "desktop_scroll"}
ExcMessage  == "display unavailable"
Box         == [left |-> 100, top |-> 200, width |-> 40, height |-> 20]
NoBox       == [left |-> 0, top |-> 0, width |-> 0, height |-> 0]
LocateCosts == {0, 100}          \* what one locateOnScreen call takes, in ms

EmptyDict == [k \in {} |-> 0]
Opt(present, k, v) == IF present THEN (k :> v) ELSE EmptyDict

\* The payload.data dicts tried: each key present or absent.
DataSet ==
    { Opt(hx, "x", 7) @@ Opt(hy, "y", 9) @@ Opt(hb, "button", "right")
        @@ Opt(hp # 0, "imagePath", IF hp = 1 THEN "" ELSE "anchor.png")
        @@ Opt(hv, "value", "ok") @@ Opt(ht # 0, "timeoutMs", IF ht = 1 THEN 0 ELSE 500)
      : hx \in BOOLEAN, hy \in BOOLEAN, hb \in BOOLEAN, hp \in 0..2,
        hv \in BOOLEAN, ht \in 0..2 }

\* A test that one of the two coordinates is there.
HasEither(data, k) == "x" \in DOMAIN data \/ "y" \in DOMAIN data

\* data.get(k) is not None
Has(data, k) == k \in DOMAIN data
\* data.get(k, default)
Get(data, k, default) == IF k \in DOMAIN data THEN data[k] ELSE default
\* if path:
Truthy(path) == path # None /\ path # ""

NoPayload == [type |-> None, data |-> EmptyDict]
NoResult  == [pending |-> TRUE]

PlayInit ==
    /\ run_pc = "idle"
    /\ payload = NoPayload
    /\ location = NoBox
    /\ run_start = 0
    /\ run_clock = 0
    /\ calls = <<>>
    /\ result = NoResult

\* An except clause that reports a fixed text.
ExceptDropsMessage(msg) == [ok |-> FALSE, error |-> "error"]

\* lines 210-211: except Exception as exc: return {"ok": False, "error": str(exc)}
ExceptResult(msg) == [ok |-> FALSE, error |-> msg]

\* One capability call ends the invocation: it returns `good`, or it raises
\* and the except clause returns.
CallAndReturn(call, raises, good) ==
    /\ calls' = Append(calls, [call EXCEPT !.out = IF raises THEN "raise" ELSE "ok"])
    /\ result' = IF raises THEN ExceptResult(ExcMessage) ELSE good
    /\ run_pc' = "done"

\* A click that always uses the left button.
ClickCallLeft(x, y, button) == [op |-> "click", x |-> x, y |-> y, button |-> "left", out |-> "ok"]

ClickCall(x, y, button) == [op |-> "click", x |-> x, y |-> y, button |-> button, out |-> "ok"]
LocateCall(path, conf)  == [op |-> "locate", path |-> path, confidence |-> conf, out |-> "ok"]
TypeCall(value)         == [op |-> "type", value |-> value, out |-> "ok"]

\* A dispatch that takes any other action type for a desktop_click.
RunBeginAsClick(type, data) ==
    /\ run_pc = "idle"
    /\ payload' = [type |-> type, data |-> data]
    /\ UNCHANGED <<location, run_start, run_clock, calls>>
    /\ result' = [pending |-> TRUE]
    /\ run_pc' = CASE type = "desktop_click_image"    -> "image_176"
                  [] type = "desktop_type"            -> "type_189"
                  [] type = "desktop_wait_for_image"  -> "wait_194"
                  [] OTHER                            -> "click_172"
    /\ UNCHANGED recVars

\* lines 167-168, and the dispatch on action_type (lines 171, 175, 188, 193, 209)
RunBegin(type, data) ==
    /\ run_pc = "idle"
    /\ payload' = [type |-> type, data |-> data]
    /\ UNCHANGED <<location, run_start, run_clock, calls>>
    /\ IF type = "desktop_click" THEN run_pc' = "click_172" /\ result' = NoResult
       ELSE IF type = "desktop_click_image" THEN run_pc' = "image_176" /\ result' = NoResult
       ELSE IF type = "desktop_type" THEN run_pc' = "type_189" /\ result' = NoResult
       ELSE IF type = "desktop_wait_for_image" THEN run_pc' = "wait_194" /\ result' = NoResult
       ELSE run_pc' = "done" /\ result' = [ok |-> FALSE, error |-> "unknown_action"]
    /\ UNCHANGED recVars

\* lines 172-173
RunClick(raises) ==
    /\ run_pc = "click_172"
    /\ CallAndReturn(ClickCall(Get(payload.data, "x", None), Get(payload.data, "y", None),
                               Get(payload.data, "button", "left")),
                     raises, [ok |-> TRUE])
    /\ UNCHANGED <<payload, location, run_start, run_clock>>
    /\ UNCHANGED recVars

\* lines 176-178
RunImagePath ==
    /\ run_pc = "image_176"
    /\ run_pc' = IF Truthy(Get(payload.data, "imagePath", None))
                 THEN "image_179" ELSE "image_183"
    /\ UNCHANGED <<payload, location, run_start, run_clock, calls, result>>
    /\ UNCHANGED recVars

\* lines 179-180
RunImageLocate(out) ==
    /\ run_pc = "image_179"
    /\ calls' = Append(calls, [LocateCall(payload.data["imagePath"],
                                 Get(payload.data, "confidence", DEFAULT_CONFIDENCE))
                               EXCEPT !.out = out])
    /\ location' = IF out = "box" THEN Box ELSE NoBox
    /\ IF out = "raise"
         THEN run_pc' = "done" /\ result' = ExceptResult(ExcMessage)
         ELSE /\ run_pc' = IF out = "box" THEN "image_181" ELSE "image_183"
              /\ UNCHANGED result
    /\ UNCHANGED <<payload, run_start, run_clock>>
    /\ UNCHANGED recVars

\* The top left corner of the region.
Corner(box) == [x |-> box.left, y |-> box.top]

\* The centre line 181 clicks (the sizes tried are even).
Centre(box) == [x |-> box.left + box.width \div 2, y |-> box.top + box.height \div 2]

\* lines 181-182
RunImageClick(raises) ==
    /\ run_pc = "image_181"
    /\ CallAndReturn(ClickCall(Centre(location).x, Centre(location).y, "primary"),
                     raises, [ok |-> TRUE, matched |-> TRUE])
    /\ UNCHANGED <<payload, location, run_start, run_clock>>
    /\ UNCHANGED recVars

\* lines 183-186
RunImageFallback(raises) ==
    /\ run_pc = "image_183"
    /\ IF Has(payload.data, "x") /\ Has(payload.data, "y")
         THEN CallAndReturn(ClickCall(Get(payload.data, "x", None),
                                      Get(payload.data, "y", None),
                                      Get(payload.data, "button", "left")),
                            raises, [ok |-> TRUE, matched |-> FALSE])
         ELSE /\ result' = [ok |-> FALSE, error |-> "image_not_found"]
              /\ run_pc' = "done"
              /\ UNCHANGED calls
    /\ UNCHANGED <<payload, location, run_start, run_clock>>
    /\ UNCHANGED recVars

\* lines 189-191
RunType(raises) ==
    /\ run_pc = "type_189"
    /\ CallAndReturn(TypeCall(Get(payload.data, "value", "")), raises, [ok |-> TRUE])
    /\ UNCHANGED <<payload, location, run_start, run_clock>>
    /\ UNCHANGED recVars

\* lines 194-196
RunWaitBegin ==
    /\ run_pc = "wait_194"
    /\ run_start' = run_clock
    /\ run_pc' = "wait_197"
    /\ UNCHANGED <<payload, location, run_clock, calls, result>>
    /\ UNCHANGED recVars

\* timeout = data.get("timeoutMs", 10000) / 1000, kept in milliseconds
WaitTimeout(data) == Get(data, "timeoutMs", DEFAULT_TIMEOUT_MS)

\* line 197 (the loop test) and line 207
RunWaitTest ==
    /\ run_pc = "wait_197"
    /\ IF run_clock - run_start < WaitTimeout(payload.data)
         THEN run_pc' = "wait_198" /\ UNCHANGED result
         ELSE run_pc' = "done" /\ result' = [ok |-> FALSE, error |-> "timeout"]
    /\ UNCHANGED <<payload, location, run_start, run_clock, calls>>
    /\ UNCHANGED recVars

\* lines 198-205
RunWaitLocate(out, cost) ==
    /\ run_pc = "wait_198"
    /\ calls' = Append(calls, [LocateCall(Get(payload.data, "imagePath", None),
                                          DEFAULT_CONFIDENCE)
                               EXCEPT !.out = out])
    /\ run_clock' = run_clock + cost
    /\ location' = IF out = "box" THEN Box ELSE NoBox
    /\ IF out = "raise" THEN run_pc' = "done" /\ result' = ExceptResult(ExcMessage)
       ELSE IF out = "box" THEN run_pc' = "done" /\ result' = [ok |-> TRUE, location |-> Box]
       ELSE run_pc' = "wait_206" /\ UNCHANGED result
    /\ UNCHANGED <<payload, run_start>>
    /\ UNCHANGED recVars

\* A loop that polls again at once.
RunWaitNoSleep ==
    /\ run_pc = "wait_206"
    /\ run_pc' = "wait_197"
    /\ UNCHANGED <<payload, location, run_start, run_clock, calls, result>>
    /\ UNCHANGED recVars

\* line 206: time.sleep(0.25)
RunWaitSleep ==
    /\ run_pc = "wait_206"
    /\ run_clock' = run_clock + POLL_INTERVAL_MS
    /\ run_pc' = "wait_197"
    /\ UNCHANGED <<payload, location, run_start, calls, result>>
    /\ UNCHANGED recVars

\* The response has been sent: the invocation's locals are gone.
RunReturn ==
    /\ run_pc = "done"
    /\ run_pc' = "idle"
    /\ payload' = NoPayload
    /\ location' = NoBox
    /\ run_start' = 0
    /\ run_clock' = 0
    /\ calls' = <<>>
    /\ result' = NoResult
    /\ UNCHANGED recVars

run_action ==
    \/ \E type \in ActionTypes, data \in DataSet : RunBegin(type, data)
    \/ \E raises \in BOOLEAN : RunClick(raises)
    \/ RunImagePath
    \/ \E out \in {"box", "none", "raise"} : RunImageLocate(out)
    \/ \E raises \in BOOLEAN : RunImageClick(raises)
    \/ \E raises \in BOOLEAN : RunImageFallback(raises)
    \/ \E raises \in BOOLEAN : RunType(raises)
    \/ RunWaitBegin
    \/ RunWaitTest
    \/ \E out \in {"box", "none", "raise"}, cost \in LocateCosts : RunWaitLocate(out, cost)
    \/ RunWaitSleep
    \/ RunReturn

Init == RecInit /\ PlayInit

RecNext ==
    \/ record_start
    \/ record_stop
    \/ on_click
    \/ on_press

Next == RecNext

Spec == Init /\ [][Next]_vars

(***************************************************************************)
(* One recording session: record_start is called once, in a process that   *)
(* has recorded nothing yet; callbacks and record_stop as in Spec.         *)
(***************************************************************************)
FirstStart == nstarts = 0 /\ StartResetEvents

SessionNext ==
    \/ FirstStart
    \/ StartResetKeys
    \/ StartResetTs
    \/ StartSetRecording
    \/ StartSessionDir
    \/ StartAttach
    \/ record_stop
    \/ on_click
    \/ on_press

SessionSpec == Init /\ [][SessionNext]_vars

PlayNext == run_action

PlaySpec == Init /\ [][PlayNext]_vars

\* run_action in a request thread that keeps running.
PlayFairSpec == PlaySpec /\ WF_vars(PlayNext)

(***************************************************************************)
(* Shorthands of the properties below.                                     *)
(***************************************************************************)

\* The last request was record_stop and it has returned.
Stopped == api_pc = "idle" /\ ~recording /\ nstarts > 0

Last(seq) == seq[Len(seq)]

\* s is the beginning of t.
IsPrefix(s, t) == Len(s) <= Len(t) /\ SubSeq(t, 1, Len(s)) = s

(***************************************************************************)
(* C1.  While recording, a click callback flushes the pending key run and  *)
(* appends its click record as one atomic step with respect to the other   *)
(* callbacks: its flush puts every buffered character into one             *)
(* desktop_type record at the end of the log and empties the buffer; from  *)
(* then until its own append no other callback (and no record_stop)        *)
(* changes the log or the buffer; its append puts the click record right   *)
(* after.  And: start, 'h', 'i' less than 0.7 s apart, a click at (50,50), *)
(* stop returns [desktop_type "hi", desktop_click_image x=50 y=50].        *)
(***************************************************************************)
C1_ExampleHist ==
    /\ Len(hist) = 3
    /\ hist[1].kind = "key" /\ hist[1].key = "h"
    /\ hist[2].kind = "key" /\ hist[2].key = "i"
    /\ hist[2].t - hist[1].t <= KEY_GROUP_TIMEOUT
    /\ hist[3].kind = "click" /\ hist[3].x = 50 /\ hist[3].y = 50 /\ hist[3].ok

C1_Example ==
    (fresh /\ Stopped /\ C1_ExampleHist /\ stop_seen = Len(hist)) =>
        /\ Len(returned) = 2
        /\ returned[1] = [type |-> "desktop_type", value |-> "hi"]
        /\ returned[2].type = "desktop_click_image"
        /\ returned[2].x = 50 /\ returned[2].y = 50

C1_Step ==
    \A p \in Pairs :
        /\ (m_pc[p] = "in_89" /\ m_pc'[p] # "in_89") =>
              /\ key_buffer' = <<>>
              /\ recorded_events' =
                    IF key_buffer = <<>> THEN recorded_events
                    ELSE Append(recorded_events,
                                [type |-> "desktop_type", value |-> Join(key_buffer)])
        /\ (m_pc[p] = "in_99" /\ m_pc'[p] # "in_99") =>
              /\ key_buffer = <<>> /\ key_buffer' = <<>>
              /\ Len(recorded_events') = Len(recorded_events) + 1
              /\ SubSeq(recorded_events', 1, Len(recorded_events)) = recorded_events
              /\ Last(recorded_events').type = "desktop_click_image"
              /\ Last(recorded_events').x = m_ev[p].x
              /\ Last(recorded_events').y = m_ev[p].y
        /\ (m_pc[p] \in {"in_89", "in_99"} /\ m_pc'[p] = m_pc[p]) =>
              UNCHANGED <<recorded_events, key_buffer>>

C1_ClickAtomic == []C1_Example /\ [][C1_Step]_vars

C1_Witness ==
    fresh /\ Stopped /\ C1_ExampleHist /\ stop_seen = Len(hist) /\ Len(returned) = 2

(***************************************************************************)
(* C2.  As claimed: for every sequence of key presses (at least one of     *)
(* them a character) processed between start() and stop(), with no click   *)
(* and every inter-key gap at most 0.7 s, the log stop() returns is        *)
(* exactly one desktop_type record whose value is the characters in order  *)
(* with each backspace having removed the character before it.             *)
(* As amended: it is that one record when a character remains after the    *)
(* backspaces, and the empty log when none remains.                        *)
(***************************************************************************)
KeysOnly(h) == \A i \in 1..Len(h) : h[i].kind = "key"

SmallGaps(h) == \A i \in 2..Len(h) : h[i].t - h[i-1].t <= KEY_GROUP_TIMEOUT

\* The text a sequence of key presses spells: a character key adds its
\* character, backspace removes the last one if there is one, any other
\* key adds nothing.
RECURSIVE TextOf(_)
TextOf(h) ==
    IF h = <<>> THEN <<>>
    ELSE LET before == TextOf(SubSeq(h, 1, Len(h) - 1))
             k      == h[Len(h)].key
         IN  CASE k \in {"h", "i"}  -> Append(before, k)
               [] k = "space"       -> Append(before, " ")
               [] k = "enter"       -> Append(before, "\n")
               [] k = "tab"         -> Append(before, "\t")
               [] k = "backspace"   -> SubSeq(before, 1, Len(before) - 1)
               [] OTHER             -> before

\* A session of key presses only, all processed before stop() was called.
C2_Case ==
    /\ fresh /\ Stopped /\ stop_seen = Len(hist)
    /\ KeysOnly(hist) /\ SmallGaps(hist)

C2_Original ==
    (C2_Case /\ \E i \in 1..Len(hist) : hist[i].key \in CharKeys) =>
        returned = <<[type |-> "desktop_type", value |-> Join(TextOf(hist))]>>

C2_OneRunOneRecord ==
    C2_Case =>
        returned = IF TextOf(hist) = <<>> THEN <<>>
                   ELSE <<[type |-> "desktop_type", value |-> Join(TextOf(hist))]>>

C2_Witness ==
    /\ C2_Case
    /\ Len(hist) = 3 /\ hist[1].key = "h" /\ hist[2].key = "i" /\ hist[3].key = "backspace"
    /\ returned = <<[type |-> "desktop_type", value |-> "h"]>>

(***************************************************************************)
(* C3.  Whenever an accepted keystroke (one that maps to a character or    *)
(* to backspace) is processed more than 0.7 s after the previous accepted  *)
(* keystroke, the buffer pending at that moment is flushed into its own    *)
(* desktop_type record before the new keystroke is processed.              *)
(***************************************************************************)
Accepted(key) == key \in CharKeys \cup {"space", "enter", "tab", "backspace"}

\* When the last accepted keystroke of h was processed (0: there is none).
RECURSIVE PrevAcceptedT(_)
PrevAcceptedT(h) ==
    IF h = <<>> THEN 0
    ELSE IF h[Len(h)].kind = "key" /\ Accepted(h[Len(h)].key) THEN h[Len(h)].t
    ELSE PrevAcceptedT(SubSeq(h, 1, Len(h) - 1))

C3_Step ==
    \A p \in Pairs :
        ( /\ k_pc[p] = "in_126" /\ k_pc'[p] = "in_130"
          /\ fresh
          /\ Accepted(k_ev[p].key)
          /\ PrevAcceptedT(hist) # 0
          /\ clock' - PrevAcceptedT(hist) > KEY_GROUP_TIMEOUT
          /\ key_buffer # <<>> )
        => /\ key_buffer' = <<>>
           /\ recorded_events' =
                 Append(recorded_events,
                        [type |-> "desktop_type", value |-> Join(key_buffer)])

C3_FlushOnGap == [][C3_Step]_vars

(***************************************************************************)
(* C5.  When the screenshot capture or the image save fails in a click     *)
(* callback, the callback still ends having appended its click record,     *)
(* with the coordinates and button of the click and imagePath none, and    *)
(* recording stays set.                                                    *)
(***************************************************************************)
C5_Step ==
    \A p \in Pairs :
        ( /\ m_pc[p] = "in_89" /\ m_pc'[p] # "in_89"
          /\ ~hist'[Len(hist')].ok )
        => /\ recording' = recording
           /\ Len(recorded_events') > 0
           /\ Last(recorded_events') =
                 [type |-> "desktop_click_image", x |-> m_ev[p].x, y |-> m_ev[p].y,
                  button |-> m_ev[p].button, imagePath |-> None,
                  confidence |-> DEFAULT_CONFIDENCE]

C5_FailedShotKeepsClick == [][C5_Step]_vars

(***************************************************************************)
(* C6.  Every step that changes the log, the key buffer or the             *)
(* last-keystroke timestamp is taken by a thread that holds record_lock.   *)
(***************************************************************************)
C6_Step ==
    (<<recorded_events, key_buffer, last_key_ts>>' # <<recorded_events, key_buffer, last_key_ts>>)
    => /\ (api_pc' # api_pc) => record_lock = <<"api", 0>>
       /\ \A p \in Pairs :
             /\ (m_pc'[p] # m_pc[p]) => record_lock = <<"mouse", p>>
             /\ (k_pc'[p] # k_pc[p]) => record_lock = <<"key", p>>

C6_MutationUnderLock == [][C6_Step]_vars

(***************************************************************************)
(* C7.  Once stop() has returned, and until the next start(), no record is *)
(* appended to the log and no character is added to the key buffer.        *)
(***************************************************************************)
C7_Step ==
    (Stopped /\ api_pc' = "idle") =>
        UNCHANGED <<recorded_events, key_buffer>>

C7_FrozenAfterStop == [][C7_Step]_vars

(***************************************************************************)
(* C8.  After any sequence of start() and stop() calls that ends with      *)
(* stop(), no listener that a start() attached is still attached.          *)
(***************************************************************************)
C8_AllDetachedAfterStop == Stopped => (m_alive = {} /\ k_alive = {})

(***************************************************************************)
(* C9.  When start() returns, the log is empty, the key buffer is empty    *)
(* and the last-keystroke timestamp is reset; and no event delivered       *)
(* before that start() began changes the log or the buffer afterwards.     *)
(***************************************************************************)
C9_Step ==
    /\ (api_pc = "start_139" /\ api_pc' = "idle") =>
          (recorded_events' = <<>> /\ key_buffer' = <<>> /\ last_key_ts' = 0)
    /\ \A p \in Pairs :
          /\ (m_pc'[p] # m_pc[p] /\ m_pc[p] # "idle" /\ m_ev[p].n < nstarts) =>
                UNCHANGED <<recorded_events, key_buffer>>
          /\ (k_pc'[p] # k_pc[p] /\ k_pc[p] # "idle" /\ k_ev[p].n < nstarts) =>
                UNCHANGED <<recorded_events, key_buffer>>

C9_FreshSession == [][C9_Step]_vars

(***************************************************************************)
(* C10.  When record_stop finds a non-empty pending key run, the log it    *)
(* returns ends with one desktop_type record whose value is the pending    *)
(* characters in order, and the key buffer is empty when it returns; when  *)
(* it finds an empty run, its critical section appends nothing.            *)
(***************************************************************************)
C10_Step ==
    /\ (api_pc = "stop_156" /\ api_pc' = "stop_162" /\ key_buffer = <<>>) =>
          recorded_events' = recorded_events
    /\ (api_pc = "stop_162" /\ api_pc' = "idle" /\ at_stop # <<>>) =>
          /\ returned' # <<>>
          /\ Last(returned') = TypeRecord(at_stop)
          /\ key_buffer' = <<>>

C10_StopFlushesPendingRun == [][C10_Step]_vars

(***************************************************************************)
(* C4.  run_action always ends with a result value.  When a capability     *)
(* call raises, it is the last call of the invocation and the result is    *)
(* ok = false with the exception's message; an invocation makes at most    *)
(* one click or typewrite call.                                            *)
(***************************************************************************)
C4_DispatcherAbsorbs ==
    /\ run_pc = "done" => ("ok" \in DOMAIN result /\ result.ok \in BOOLEAN)
    /\ run_pc # "done" => result = [pending |-> TRUE]
    /\ \A i \in 1..Len(calls) :
          calls[i].out = "raise" =>
              /\ i = Len(calls)
              /\ run_pc = "done"
              /\ result = [ok |-> FALSE, error |-> ExcMessage]
    /\ Cardinality({i \in 1..Len(calls) : calls[i].op \in {"click", "type"}}) <= 1

C4_Witness ==
    /\ run_pc = "done"
    /\ payload.type = "desktop_click_image"
    /\ Has(payload.data, "x") /\ Has(payload.data, "y")
    /\ Len(calls) = 1 /\ calls[1].op = "locate" /\ calls[1].out = "raise"
    /\ result = [ok |-> FALSE, error |-> ExcMessage]

(***************************************************************************)
(* C11.  A backspace key press removes only the last character of the      *)
(* pending buffer as it finds it (lines 132-134); with an empty buffer it  *)
(* changes nothing; and no step of its callback changes, shortens or       *)
(* removes a record already in the log.                                    *)
(***************************************************************************)
C11_Step ==
    \A p \in Pairs :
        /\ (k_pc[p] = "in_130" /\ k_pc'[p] = "idle" /\ k_ev[p].key = "backspace") =>
              /\ recorded_events' = recorded_events
              /\ key_buffer' = IF key_buffer = <<>> THEN <<>>
                               ELSE SubSeq(key_buffer, 1, Len(key_buffer) - 1)
        /\ (k_pc[p] # "idle" /\ k_pc'[p] # k_pc[p] /\ k_ev[p].key = "backspace") =>
              IsPrefix(recorded_events, recorded_events')

C11_BackspaceFrame == [][C11_Step]_vars

\* 'h', a click, then a backspace: the buffer is empty, the log is intact.
C11_Witness ==
    /\ InFlight = {} /\ Len(hist) = 3
    /\ hist[1].kind = "key" /\ hist[1].key = "h"
    /\ hist[2].kind = "click" /\ hist[2].ok
    /\ hist[3].kind = "key" /\ hist[3].key = "backspace"
    /\ key_buffer = <<>>
    /\ Len(recorded_events) = 2
    /\ recorded_events[1] = [type |-> "desktop_type", value |-> "h"]

(***************************************************************************)
(* C12.  The callback of an unmapped key (one key_to_char maps to none)    *)
(* appends no record to the log and leaves the key buffer unchanged,       *)
(* whatever the time since the previous keystroke.                         *)
(***************************************************************************)
C12_Step ==
    \A p \in Pairs :
        (k_pc[p] # "idle" /\ k_pc'[p] # k_pc[p] /\ key_to_char(k_ev[p].key) = None) =>
            UNCHANGED <<recorded_events, key_buffer>>

C12_UnmappedKeyNoOp == [][C12_Step]_vars

(***************************************************************************)
(* C13.  Within one session the log is append-only: every step of a        *)
(* callback or of record_stop keeps the records the log holds, in their    *)
(* order, and adds nothing except at the end; and the records are in the   *)
(* order in which the inputs were processed.                               *)
(***************************************************************************)
\* What matters of a record for its place in the log.
Brief(r) ==
    IF r.type = "desktop_type" THEN <<"type", r.value>> ELSE <<"click", r.x, r.y>>

\* The inputs h handled one at a time, each wholly before the next: the
\* records this gives, in order, with the run left pending and the time of
\* the last key.
RECURSIVE OneByOne(_)
OneByOne(h) ==
    IF h = <<>> THEN [log |-> <<>>, buf |-> <<>>, ts |-> 0]
    ELSE LET st  == OneByOne(SubSeq(h, 1, Len(h) - 1))
             e   == h[Len(h)]
             cut == e.kind = "click" \/ (st.ts # 0 /\ e.t - st.ts > KEY_GROUP_TIMEOUT)
             log == IF cut /\ st.buf # <<>>
                      THEN Append(st.log, <<"type", Join(st.buf)>>) ELSE st.log
             buf == IF cut THEN <<>> ELSE st.buf
         IN  IF e.kind = "click"
               THEN [log |-> IF e.ok THEN Append(log, <<"click", e.x, e.y>>) ELSE log,
                     buf |-> buf, ts |-> st.ts]
               ELSE [log |-> log,
                     buf |-> CASE e.key \in CharKeys -> Append(buf, e.key)
                               [] e.key = "backspace" -> SubSeq(buf, 1, Len(buf) - 1)
                               [] OTHER -> buf,
                     ts  |-> e.t]

C13_Step ==
    (nstarts' = nstarts) => IsPrefix(recorded_events, recorded_events')

\* With no callback in flight and record_stop not yet called, the log and
\* the pending run are those of the inputs handled in the order in which
\* they took the lock.
C13_Order ==
    (fresh /\ InFlight = {} /\ stop_seen = -1 /\ api_pc = "idle") =>
        /\ [i \in 1..Len(recorded_events) |-> Brief(recorded_events[i])] = OneByOne(hist).log
        /\ key_buffer = OneByOne(hist).buf

C13_AppendOnly == []C13_Order /\ [][C13_Step]_vars

C13_Witness ==
    /\ InFlight = {} /\ Len(recorded_events) = 3
    /\ recorded_events[1].type = "desktop_click_image"
    /\ recorded_events[2] = [type |-> "desktop_type", value |-> "h"]
    /\ recorded_events[3].type = "desktop_click_image"

(***************************************************************************)
(* Shorthands of the playback properties.                                  *)
(***************************************************************************)
Carries(k) == k \in DOMAIN payload.data

Clicks == {i \in 1..Len(calls) : calls[i].op = "click"}

Polls == {i \in 1..Len(calls) : calls[i].op = "locate"}

Located == \E i \in Polls : calls[i].out = "box"

NoMatch == \E i \in Polls : calls[i].out = "none"

Raised == \E i \in 1..Len(calls) : calls[i].out = "raise"

(***************************************************************************)
(* C14.  desktop_click_image with no match on screen (locate reports none, *)
(* or there is no anchor path and locate is not called) and with x or y    *)
(* absent returns ok = false with error image_not_found and makes no click *)
(* call.                                                                   *)
(***************************************************************************)
C14_ImageNotFound ==
    (payload.type = "desktop_click_image" /\ ~(Carries("x") /\ Carries("y"))
        /\ ~Located /\ ~Raised) =>
        /\ Clicks = {}
        /\ run_pc = "done" => result = [ok |-> FALSE, error |-> "image_not_found"]

C14_Witness ==
    /\ run_pc = "done" /\ payload.type = "desktop_click_image"
    /\ Carries("x") /\ ~Carries("y")
    /\ Len(calls) = 1 /\ calls[1].op = "locate" /\ calls[1].out = "none"
    /\ result = [ok |-> FALSE, error |-> "image_not_found"]

(***************************************************************************)
(* C15.  desktop_click_image whose anchor locate finds makes exactly one   *)
(* click call, at (left + width/2, top + height/2) of the region found,    *)
(* whatever x and y the record carries, and never at the recorded          *)
(* coordinates; the click having returned, the result is ok = true with    *)
(* matched = true (a click that raises is reported as C4 says).            *)
(***************************************************************************)
C15_MatchedCentreClick ==
    (payload.type = "desktop_click_image" /\ Located /\ run_pc = "done") =>
        /\ Cardinality(Clicks) = 1
        /\ \A i \in Clicks :
              /\ 2 * calls[i].x = 2 * location.left + location.width
              /\ 2 * calls[i].y = 2 * location.top + location.height
              /\ Carries("x") => calls[i].x # payload.data["x"]
              /\ Carries("y") => calls[i].y # payload.data["y"]
              /\ result = IF calls[i].out = "ok" THEN [ok |-> TRUE, matched |-> TRUE]
                           ELSE [ok |-> FALSE, error |-> ExcMessage]

C15_Witness ==
    /\ run_pc = "done" /\ payload.type = "desktop_click_image"
    /\ Carries("x") /\ Carries("y") /\ Located
    /\ result = [ok |-> TRUE, matched |-> TRUE]

(***************************************************************************)
(* C16.  desktop_click_image for which locate reports no match, on a       *)
(* record that carries both x and y, makes exactly one click call, at      *)
(* (x, y) with the record's button (left when it carries none); the click  *)
(* having returned, the result is ok = true with matched = false.          *)
(***************************************************************************)
C16_FallbackClick ==
    (payload.type = "desktop_click_image" /\ NoMatch /\ Carries("x") /\ Carries("y")
        /\ run_pc = "done") =>
        /\ Cardinality(Clicks) = 1
        /\ \A i \in Clicks :
              /\ calls[i].x = payload.data["x"]
              /\ calls[i].y = payload.data["y"]
              /\ calls[i].button = IF Carries("button") THEN payload.data["button"]
                                    ELSE "left"
              /\ result = IF calls[i].out = "ok" THEN [ok |-> TRUE, matched |-> FALSE]
                           ELSE [ok |-> FALSE, error |-> ExcMessage]

C16_Witness ==
    /\ run_pc = "done" /\ payload.type = "desktop_click_image"
    /\ NoMatch /\ Carries("x") /\ Carries("y") /\ Carries("button")
    /\ result = [ok |-> TRUE, matched |-> FALSE]

(***************************************************************************)
(* C17.  desktop_wait_for_image always terminates.  With an anchor that    *)
(* never appears (every locate reports none) it sleeps 0.25 s after each   *)
(* poll, so the k-th poll starts at least (k-1) * 0.25 s after the start   *)
(* and there are at most timeout/0.25 + 1 polls; it stops at the first     *)
(* loop test at which the elapsed time has reached the timeout and returns *)
(* ok = false with error timeout; it makes no click call.                  *)
(***************************************************************************)
C17_Timeout ==
    IF Carries("timeoutMs") THEN payload.data["timeoutMs"] ELSE DEFAULT_TIMEOUT_MS

C17_Polling ==
    (payload.type = "desktop_wait_for_image") =>
        /\ Clicks = {}
        /\ run_pc = "wait_198" =>
              /\ run_clock - run_start >= POLL_INTERVAL_MS * Len(calls)
              /\ run_clock - run_start < C17_Timeout
        /\ POLL_INTERVAL_MS * Cardinality(Polls) <= C17_Timeout + POLL_INTERVAL_MS
        /\ (run_pc = "done" /\ ~Located /\ ~Raised) =>
              /\ result = [ok |-> FALSE, error |-> "timeout"]
              /\ run_clock - run_start >= C17_Timeout

C17_Terminates ==
    (payload.type = "desktop_wait_for_image" /\ run_pc = "wait_194") ~> (run_pc = "done")

C17_WaitTerminates == []C17_Polling /\ C17_Terminates

\* The default timeout ran out after forty polls.
C17_Witness ==
    /\ run_pc = "done" /\ payload.type = "desktop_wait_for_image"
    /\ ~Carries("timeoutMs") /\ Len(calls) = 40
    /\ result = [ok |-> FALSE, error |-> "timeout"]

(***************************************************************************)
(* C18.  run_action with an action type other than desktop_click,          *)
(* desktop_click_image, desktop_type and desktop_wait_for_image returns    *)
(* ok = false with error unknown_action and makes no capability call.      *)
(***************************************************************************)
C18_UnknownAction ==
    (run_pc # "idle" /\ payload.type \notin {"desktop_click", "desktop_click_image",
                                             "desktop_type", "desktop_wait_for_image"}) =>
        /\ run_pc = "done"
        /\ result = [ok |-> FALSE, error |-> "unknown_action"]
        /\ calls = <<>>

C18_Witness ==
    /\ run_pc = "done" /\ payload.type = "desktop_scroll"
    /\ Carries("x") /\ Carries("imagePath") /\ Carries("value")
    /\ result = [ok |-> FALSE, error |-> "unknown_action"]

(***************************************************************************)
(* C19.  After any sequence of record_start and record_stop calls at most  *)
(* one mouse listener and at most one keyboard listener are attached.      *)
(***************************************************************************)
C19_OneListenerPair == Cardinality(m_alive) <= 1 /\ Cardinality(k_alive) <= 1

(***************************************************************************)
(* C20.  record_stop is idempotent: a record_stop that follows another     *)
(* with no step of a callback since the earlier one was called appends no  *)
(* record, leaves the key buffer empty and recording unset, and returns    *)
(* the log the earlier one returned; a record_stop with no record_start    *)
(* before it returns the empty log and leaves the buffer empty and         *)
(* recording unset.                                                        *)
(***************************************************************************)
C20_Step ==
    /\ (quiet_stops' = 2 /\ api_pc' # api_pc) =>
          /\ recorded_events' = recorded_events
          /\ key_buffer' = <<>>
          /\ ~recording'
          /\ api_pc' = "idle" => returned' = returned
    /\ (nstarts = 0 /\ api_pc = "stop_162" /\ api_pc' = "idle") =>
          /\ returned' = <<>>
          /\ recorded_events' = <<>>
          /\ key_buffer' = <<>>
          /\ ~recording'

C20_StopIdempotent == [][C20_Step]_vars

\* A second record_stop has returned the two records of the first.
C20_Witness ==
    /\ Stopped /\ quiet_stops = 2
    /\ Len(returned) = 2
    /\ returned[1].type = "desktop_click_image"
    /\ returned[2] = [type |-> "desktop_type", value |-> "hi"]

=============================================================================
